---- MODULE Spec2Model ----
(***************************************************************************)
(* RUGGUARD bot (src/RUGGUARD_BOT/main.py): the trusted-list cache, the     *)
(* account analysis, the trust score and the stream listener.              *)
(*                                                                         *)
(* Strings are sequences of one-character strings.  Times are whole        *)
(* seconds.  A follower ratio is held in hundredths (the code keeps it     *)
(* rounded to two decimals), so "ratio > 2" reads "hundredths > 200".      *)
(***************************************************************************)
EXTENDS Integers, Sequences, FiniteSets, TLC

VARIABLES
    trusted_accounts_cache, \* _trusted_accounts_cache: None or a set of handles
    cache_timestamp,        \* _cache_timestamp
    clock,                  \* what time.time() returns
    lastFetch,              \* history: the last successful fetch (time, set)
    lastOutcome,            \* history: how the previous get_trusted_accounts call ended
    call,                   \* the get_trusted_accounts call of the last operation
    event,                  \* what on_tweet did with the last stream event
    profile,                \* the user object the analysis is given
    report,                 \* analyze_user_account's return value
    reply,                  \* generate_reply's return value
    pc,                     \* per thread: the line of get_trusted_accounts it is at
    local,                  \* per thread: current_time, accounts, returned value
    published               \* history: the (set, timestamp) pairs refreshes wrote

vars == <<trusted_accounts_cache, cache_timestamp, clock, lastFetch, lastOutcome,
          call, event, profile, report, reply, pc, local, published>>

-----------------------------------------------------------------------------
(* Configuration and bounds *)

CACHE_DURATION_SECONDS == 3600
MIN_TRUSTED_FOLLOWERS == 3
TRIGGER_PHRASE ==
    <<"r", "i", "d", "d", "l", "e", " ", "m", "e", " ", "t", "h", "i", "s">>

\* The longest body of the trusted-list document, in characters.
MaxTextLen == 4
\* The longest user name, in characters.
MaxNameLen == 2
\* time.time() when the process starts, and how long the model runs after that.
StartTime == 7200
Horizon == 3600
\* How many get_trusted_accounts calls each concurrent thread makes.
MaxCalls == 1

-----------------------------------------------------------------------------
(* Strings *)

RECURSIVE SeqsUpTo(_, _)
SeqsUpTo(S, n) ==
    IF n = 0 THEN {<<>>}
    ELSE LET shorter == SeqsUpTo(S, n - 1)
         IN  shorter \cup {Append(s, c) : s \in {x \in shorter : Len(x) = n - 1}, c \in S}

LowerChar(c) ==
    CASE c = "A" -> "a"
      [] c = "R" -> "r"
      [] c = "I" -> "i"
      [] c = "D" -> "d"
      [] c = "L" -> "l"
      [] c = "E" -> "e"
      [] c = "M" -> "m"
      [] c = "T" -> "t"
      [] c = "H" -> "h"
      [] c = "S" -> "s"
      [] OTHER -> c

\* str.lower
Lower(s) == [i \in 1..Len(s) |-> LowerChar(s[i])]

IsSpace(c) == c \in {" ", "\n"}

RECURSIVE LStrip(_)
LStrip(s) == IF s # <<>> /\ IsSpace(Head(s)) THEN LStrip(Tail(s)) ELSE s

RECURSIVE RStrip(_)
RStrip(s) ==
    IF s # <<>> /\ IsSpace(s[Len(s)]) THEN RStrip(SubSeq(s, 1, Len(s) - 1)) ELSE s

\* str.strip
Strip(s) == RStrip(LStrip(s))

\* str.splitlines: a line ends at each "\n"; a trailing "\n" opens no last line.
RECURSIVE SplitLines(_)
SplitLines(s) ==
    IF s = <<>> THEN <<>>
    ELSE LET nl == {i \in 1..Len(s) : s[i] = "\n"}
         IN  IF nl = {} THEN <<s>>
             ELSE LET k == CHOOSE i \in nl : \A j \in nl : i <= j
                  IN  <<SubSeq(s, 1, k - 1)>> \o SplitLines(SubSeq(s, k + 1, Len(s)))

\* needle in haystack
Contains(haystack, needle) ==
    \E i \in 1..(Len(haystack) - Len(needle) + 1) :
        SubSeq(haystack, i, i + Len(needle) - 1) = needle

-----------------------------------------------------------------------------
(* 2. Trusted list handler *)

None == [isNone |-> TRUE, accounts |-> {}]
Some(accounts) == [isNone |-> FALSE, accounts |-> accounts]

\* Python truth value of the cache: None and the empty set are both false.
Truthy(cache) == ~cache.isNone /\ cache.accounts # {}

\* line 65
ParseAccounts(text) ==
    LET lines == SplitLines(text)
    IN  {Lower(Strip(lines[i])) : i \in {j \in 1..Len(lines) : Strip(lines[j]) # <<>>}}

\* line 55
CacheIsFreshNoTtl(cache, ts, current_time) == Truthy(cache)
CacheIsFresh(cache, ts, current_time) ==
    Truthy(cache) /\ current_time - ts < CACHE_DURATION_SECONDS

\* lines 71-74: requests.get or raise_for_status raised a RequestException
FetchFailedTouch(cache, ts, current_time) ==
    [cache |-> cache, ts |-> current_time,
     ret |-> IF Truthy(cache) THEN cache.accounts ELSE {},
     attempts |-> 1, outcome |-> "failed"]
FetchFailed(cache, ts, current_time) ==
    [cache |-> cache, ts |-> ts,
     ret |-> IF Truthy(cache) THEN cache.accounts ELSE {},
     attempts |-> 1, outcome |-> "failed"]

\* lines 67-70: the response came back with a success status and was parsed
FetchSucceeded(accounts, current_time) ==
    [cache |-> Some(accounts), ts |-> current_time, ret |-> accounts,
     attempts |-> 1, outcome |-> "fetched"]

\* The bodies the trusted-list document is tried with
TextChars == {" ", "a", "A", "\n"}
ListTexts == SeqsUpTo(TextChars, MaxTextLen)

\* lines 61-65: requests.get(url), raise_for_status() and the parse of the body;
\* what is left of a response is its kind and the accounts its text parses to
Responses ==
    {[kind |-> "ok", accounts |-> ParseAccounts(t)] : t \in ListTexts}
    \cup {[kind |-> k, accounts |-> {}] : k \in {"http_error", "connection_error"}}

\* get_trusted_accounts, given what the fetch would answer if it is made
GetTrustedAccounts(cache, ts, current_time, response) ==
    IF CacheIsFresh(cache, ts, current_time)
    THEN [cache |-> cache, ts |-> ts, ret |-> cache.accounts,
          attempts |-> 0, outcome |-> "cached"]
    ELSE IF response.kind = "ok"
         THEN FetchSucceeded(response.accounts, current_time)
         ELSE FetchFailed(cache, ts, current_time)

-----------------------------------------------------------------------------
(* 3. Analysis engine *)

Min(a, b) == IF a < b THEN a ELSE b

\* round(n / d, 0) for n >= 0, d > 0, ties to the even neighbour
RoundHalfEven(n, d) ==
    LET q == n \div d
        r == n % d
    IN  IF 2 * r < d THEN q
        ELSE IF 2 * r > d THEN q + 1
        ELSE IF q % 2 = 0 THEN q ELSE q + 1

\* lines 103 and 115: round(follower_ratio, 2), in hundredths
FollowerRatio(follower_count, following_count) ==
    IF following_count > 0
    THEN RoundHalfEven(100 * follower_count, following_count)
    ELSE 100 * follower_count

\* line 123
IsOnTrustedListExact(username, accounts) == username \in accounts
IsOnTrustedList(username, accounts) == Lower(username) \in accounts

NoUser ==
    [username |-> <<>>, account_age_days |-> 0, verified |-> FALSE,
     followers_count |-> 0, following_count |-> 0]

NoData ==
    [username |-> <<>>, account_age_days |-> 0, is_verified |-> FALSE,
     followers |-> 0, following |-> 0, follower_ratio |-> 0,
     is_on_trusted_list |-> FALSE, vouched_by_count |-> 0,
     trusted_check_note |-> FALSE]

NoReport == [returned |-> FALSE, error |-> "", data |-> NoData]

USER_NOT_FOUND == "User not found."
TWEEPY_FAILURE == "Failed to fetch user data from X. The account might be protected."
INTERNAL_ERROR == "An internal error occurred during the analysis process."

\* lines 105-132: the report of a user that was found
ReportData(user, accounts) ==
    LET listed == IsOnTrustedList(user.username, accounts)
    IN  [username |-> user.username,
         account_age_days |-> user.account_age_days,
         is_verified |-> user.verified,
         followers |-> user.followers_count,
         following |-> user.following_count,
         follower_ratio |-> FollowerRatio(user.followers_count, user.following_count),
         is_on_trusted_list |-> listed,
         vouched_by_count |-> IF listed THEN Cardinality(accounts) ELSE 0,
         trusted_check_note |-> ~listed]

\* client.get_user: a user, no data, a TweepyException, or an exception that is
\* no TweepyException (the HTTP session's connection error)
ClientOutcomes == {"ok", "none", "tweepy_error", "connection_error"}

\* analyze_user_account up to the trusted-list lookup: the report when
\* get_user did not give a user (lines 94-97, 134-139)
ReportWithoutUser(outcome) ==
    [returned |-> TRUE,
     error |-> CASE outcome = "none" -> USER_NOT_FOUND
                 [] outcome = "tweepy_error" -> TWEEPY_FAILURE
                 [] OTHER -> INTERNAL_ERROR,
     data |-> NoData]

\* lines 99-132, 141
ReportWithUser(user, accounts) ==
    [returned |-> TRUE, error |-> "", data |-> ReportData(user, accounts)]

-----------------------------------------------------------------------------
(* 4. Reply generator *)

AGE_REASON == "Account age > 1 year"
RATIO_REASON == "Follower/Following ratio > 2"
VERIFIED_REASON == "Verified Account"
LISTED_REASON == "RUGGUARD Trusted List Member!"
VOUCHED_REASON == "Vouched by trusted accounts!"

\* lines 159-180
TrustScoreUncapped(data) ==
    LET s1 == IF data.account_age_days > 365 THEN 25 ELSE 0
        s2 == IF data.followers > 1000 THEN s1 + 15 ELSE s1
        s3 == IF data.follower_ratio > 200 THEN s2 + 20 ELSE s2
        s4 == IF data.is_verified THEN s3 + 25 ELSE s3
    IN  IF data.is_on_trusted_list THEN 100
        ELSE IF data.vouched_by_count >= MIN_TRUSTED_FOLLOWERS THEN s4 + 50
        ELSE s4
TrustScore(data) ==
    LET s1 == IF data.account_age_days > 365 THEN 25 ELSE 0
        s2 == IF data.followers > 1000 THEN s1 + 15 ELSE s1
        s3 == IF data.follower_ratio > 200 THEN s2 + 20 ELSE s2
        s4 == IF data.is_verified THEN s3 + 25 ELSE s3
        s5 == IF data.is_on_trusted_list THEN 100
              ELSE IF data.vouched_by_count >= MIN_TRUSTED_FOLLOWERS THEN s4 + 50
              ELSE s4
    IN  Min(s5, 100)

\* lines 160-178
Reasons(data) ==
    (IF data.account_age_days > 365 THEN <<AGE_REASON>> ELSE <<>>)
    \o (IF data.follower_ratio > 200 THEN <<RATIO_REASON>> ELSE <<>>)
    \o (IF data.is_verified THEN <<VERIFIED_REASON>> ELSE <<>>)
    \o (IF data.is_on_trusted_list THEN <<LISTED_REASON>>
        ELSE IF data.vouched_by_count >= MIN_TRUSTED_FOLLOWERS THEN <<VOUCHED_REASON>>
        ELSE <<>>)

\* lines 183-190
TrustLevel(score) ==
    IF score >= 85 THEN "Very High"
    ELSE IF score >= 65 THEN "High"
    ELSE IF score >= 40 THEN "Medium"
    ELSE "Low"

NoReply ==
    [kind |-> "none", error |-> "", score |-> 0, trust_level |-> "", reasons |-> <<>>]

\* generate_reply: the failure line, or the report's score, level and signals
GenerateReplyOf(analysis_report) ==
    IF analysis_report.error # ""
    THEN [kind |-> "failed", error |-> analysis_report.error, score |-> 0,
          trust_level |-> "", reasons |-> <<>>]
    ELSE LET score == TrustScore(analysis_report.data)
         IN  [kind |-> "report", error |-> "", score |-> score,
              trust_level |-> TrustLevel(score),
              reasons |-> Reasons(analysis_report.data)]

-----------------------------------------------------------------------------
(* 5. Bot stream listener *)

REPLIED_ID == 2
QUOTED_ID == 1

Replied == [type |-> "replied_to", id |-> REPLIED_ID]
Quoted == [type |-> "quoted", id |-> QUOTED_ID]

\* tweet.referenced_tweets; the empty sequence also stands for None
ReferenceLists ==
    {<<>>, <<Replied>>, <<Quoted>>, <<Replied, Quoted>>, <<Quoted, Replied>>}

Texts ==
    {<<"h", "e", "y", " ", "@", "b", "o", "t", " ",
       "R", "i", "d", "d", "l", "e", " ", "M", "E", " ", "t", "h", "i", "s", "!">>,
     <<"r", "i", "d", "d", "l", "e", " ", "m", "e", " ", "t", "h", "a", "t">>}

Tweets == {[text |-> t, referenced_tweets |-> r] : t \in Texts, r \in ReferenceLists}

\* line 231
IsReply(tweet) ==
    tweet.referenced_tweets # <<>> /\ tweet.referenced_tweets[1].type = "replied_to"

\* line 232
ContainsTrigger(tweet) == Contains(Lower(tweet.text), Lower(TRIGGER_PHRASE))

\* line 234
TriggerDetected(tweet) == IsReply(tweet) /\ ContainsTrigger(tweet)

\* line 236
OriginalTweetId(tweet) == tweet.referenced_tweets[1].id

\* The exceptions a client call raises
Exceptions == {"tweepy_error", "connection_error"}

\* lines 134-139: the exceptions analyze_user_account turns into a report
AnalysisCatches(exc) == exc \in {"tweepy_error", "connection_error"}

\* lines 257-260: the exceptions on_tweet's handlers stop
ListenerCatchesTweepyOnly(exc) == exc = "tweepy_error"
ListenerCatches(exc) == exc \in {"tweepy_error", "connection_error"}

\* client.get_tweet: a tweet with its author, a tweet without author_id, no
\* data, or an exception
PostOutcomes == {"ok", "no_author", "none"} \cup Exceptions

NoCall ==
    [made |-> FALSE, at |-> 0, attempts |-> 0, ret |-> {}, outcome |-> "none",
     cache_before |-> None, ts_before |-> 0,
     fetched_before |-> FALSE, fetched_at |-> 0, fetched_set |-> {},
     previous |-> "none", cache_after |-> None, ts_after |-> 0]

NoFetch == [happened |-> FALSE, at |-> 0, accounts |-> {}]

\* What one get_trusted_accounts call did, with the history it started from
CallRecord(res) ==
    [made |-> TRUE, at |-> clock, attempts |-> res.attempts, ret |-> res.ret,
     outcome |-> res.outcome,
     cache_before |-> trusted_accounts_cache, ts_before |-> cache_timestamp,
     fetched_before |-> lastFetch.happened, fetched_at |-> lastFetch.at,
     fetched_set |-> lastFetch.accounts,
     previous |-> lastOutcome, cache_after |-> res.cache, ts_after |-> res.ts]

\* The module-level state after a get_trusted_accounts call
CacheCalled(res) ==
    /\ trusted_accounts_cache' = res.cache
    /\ cache_timestamp' = res.ts
    /\ call' = CallRecord(res)
    /\ lastOutcome' = res.outcome
    /\ lastFetch' = IF res.outcome = "fetched"
                    THEN [happened |-> TRUE, at |-> clock, accounts |-> res.ret]
                    ELSE lastFetch

CacheNotCalled ==
    /\ call' = NoCall
    /\ UNCHANGED <<trusted_accounts_cache, cache_timestamp, lastOutcome, lastFetch>>

\* The responses worth telling apart: none is read when the cache is fresh
ResponsesNow ==
    IF CacheIsFresh(trusted_accounts_cache, cache_timestamp, clock)
    THEN {[kind |-> "ok", accounts |-> {}]}
    ELSE Responses

NoEvent ==
    [handled |-> FALSE, tweet |-> [text |-> <<>>, referenced_tweets |-> <<>>],
     triggered |-> FALSE, lookup_id |-> 0, post |-> "none", user |-> "none",
     send |-> "none", calls |-> {}, posted |-> NoReply, raised |-> FALSE]

\* on_tweet ended before the analysis started
EndedEarly(tweet, triggered, post, raised) ==
    /\ event' = [handled |-> TRUE, tweet |-> tweet, triggered |-> triggered,
                 lookup_id |-> IF triggered THEN OriginalTweetId(tweet) ELSE 0,
                 post |-> post, user |-> "none", send |-> "none",
                 calls |-> IF triggered THEN {"get_tweet"} ELSE {},
                 posted |-> NoReply, raised |-> raised]
    /\ profile' = NoUser
    /\ report' = NoReport
    /\ reply' = NoReply
    /\ CacheNotCalled

\* analyze_user_account raised: on_tweet's handlers are all that is left
AnalysisRaised(tweet, user) ==
    /\ event' = [handled |-> TRUE, tweet |-> tweet, triggered |-> TRUE,
                 lookup_id |-> OriginalTweetId(tweet),
                 post |-> "ok", user |-> user, send |-> "none",
                 calls |-> {"get_tweet", "get_user"},
                 posted |-> NoReply, raised |-> ~ListenerCatches(user)]
    /\ profile' = NoUser
    /\ report' = NoReport
    /\ reply' = NoReply
    /\ CacheNotCalled

\* lines 251-260: the reply is generated and create_tweet is called
ReplySent(tweet, user, rep, send, listed) ==
    /\ report' = rep
    /\ reply' = GenerateReplyOf(rep)
    /\ event' = [handled |-> TRUE, tweet |-> tweet, triggered |-> TRUE,
                 lookup_id |-> OriginalTweetId(tweet),
                 post |-> "ok", user |-> user, send |-> send,
                 calls |-> {"get_tweet", "get_user", "create_tweet"} \cup listed,
                 posted |-> IF send = "ok" THEN GenerateReplyOf(rep) ELSE NoReply,
                 raised |-> send \in Exceptions /\ ~ListenerCatches(send)]

\* client.create_tweet: sent, or an exception
SendOutcomes == {"ok"} \cup Exceptions

UserNames == SeqsUpTo({"a", "A"}, MaxNameLen) \ {<<>>}

\* The user objects the analysis is tried on
Users ==
    [username : UserNames,
     account_age_days : {0, 365, 366, 400},
     verified : BOOLEAN,
     followers_count : {0, 2, 3, 1000, 1001, 2001, 5000},
     following_count : {0, 1, 100, 1000}]

\* The authors the stream's tweets reply to
StreamUsers ==
    [username : {<<"A">>, <<"a", "a">>},
     account_age_days : {400},
     verified : {FALSE},
     followers_count : {5000},
     following_count : {100}]

\* The clock moves on between two events
TickSteps == {CACHE_DURATION_SECONDS - 1, CACHE_DURATION_SECONDS}

Threads == {1, 2}
NoLocal == [current_time |-> 0, accounts |-> {}, ret |-> {}, calls |-> 0]

Init ==
    /\ trusted_accounts_cache = None
    /\ cache_timestamp = 0
    /\ clock = StartTime
    /\ lastFetch = NoFetch
    /\ lastOutcome = "none"
    /\ call = NoCall
    /\ event = NoEvent
    /\ profile = NoUser
    /\ report = NoReport
    /\ reply = NoReply
    /\ pc = [t \in Threads |-> "idle"]
    /\ local = [t \in Threads |-> NoLocal]
    /\ published = {<<None, 0>>}

Tick ==
    /\ \E d \in TickSteps :
         /\ clock + d <= StartTime + Horizon
         /\ clock' = clock + d
    /\ UNCHANGED <<trusted_accounts_cache, cache_timestamp, lastFetch, lastOutcome,
                   call, event, profile, report, reply, pc, local, published>>

\* BotStreamListener.on_tweet, lines 227-260, with everything it calls
OnTweet ==
    /\ \E tweet \in Tweets :
         IF ~TriggerDetected(tweet)
         THEN EndedEarly(tweet, FALSE, "none", FALSE)
         ELSE \E post \in PostOutcomes :
           IF post \in Exceptions
           THEN EndedEarly(tweet, TRUE, post, ~ListenerCatches(post))
           ELSE IF post # "ok"
           THEN EndedEarly(tweet, TRUE, post, FALSE)
           ELSE \E user \in ClientOutcomes :
             IF user \in Exceptions /\ ~AnalysisCatches(user)
             THEN AnalysisRaised(tweet, user)
             ELSE IF user # "ok"
             THEN \E send \in SendOutcomes :
                    /\ ReplySent(tweet, user, ReportWithoutUser(user), send, {})
                    /\ profile' = NoUser
                    /\ CacheNotCalled
             ELSE \E u \in StreamUsers, response \in ResponsesNow, send \in SendOutcomes :
                    LET res == GetTrustedAccounts(trusted_accounts_cache,
                                                  cache_timestamp, clock, response)
                    IN  /\ profile' = u
                        /\ CacheCalled(res)
                        /\ ReplySent(tweet, "ok", ReportWithUser(u, res.ret), send,
                                     IF res.attempts > 0 THEN {"trusted_list"} ELSE {})
    /\ UNCHANGED <<clock, pc, local, published>>

Next == Tick \/ OnTweet

Spec == Init /\ [][Next]_vars

-----------------------------------------------------------------------------
(* analyze_user_account and generate_reply on their own *)

\* analyze_user_account, lines 81-141, for the user object in profile
AnalyzeUserAccount ==
    /\ ~report.returned
    /\ \E user \in ClientOutcomes :
         IF user \in Exceptions /\ ~AnalysisCatches(user)
         THEN /\ report' = NoReport
              /\ CacheNotCalled
         ELSE IF user # "ok"
         THEN /\ report' = ReportWithoutUser(user)
              /\ CacheNotCalled
         ELSE \E response \in ResponsesNow :
                LET res == GetTrustedAccounts(trusted_accounts_cache,
                                              cache_timestamp, clock, response)
                IN  /\ report' = ReportWithUser(profile, res.ret)
                    /\ CacheCalled(res)
    /\ UNCHANGED <<clock, event, profile, reply, pc, local, published>>

\* generate_reply, lines 148-211, on the report at hand
GenerateReply ==
    /\ report.returned
    /\ reply.kind = "none"
    /\ reply' = GenerateReplyOf(report)
    /\ UNCHANGED <<trusted_accounts_cache, cache_timestamp, clock, lastFetch,
                   lastOutcome, call, event, profile, report, pc, local, published>>

\* The analysis of one user, from a process that has fetched nothing yet
InitAnalyze ==
    /\ trusted_accounts_cache = None
    /\ cache_timestamp = 0
    /\ clock = StartTime
    /\ lastFetch = NoFetch
    /\ lastOutcome = "none"
    /\ call = NoCall
    /\ event = NoEvent
    /\ profile \in Users
    /\ report = NoReport
    /\ reply = NoReply
    /\ pc = [t \in Threads |-> "idle"]
    /\ local = [t \in Threads |-> NoLocal]
    /\ published = {<<None, 0>>}

NextAnalyze == AnalyzeUserAccount \/ GenerateReply

SpecAnalyze == InitAnalyze /\ [][NextAnalyze]_vars

\* The report data generate_reply is tried on
Snapshots ==
    [username : {<<"a">>},
     account_age_days : {365, 366, 400},
     is_verified : BOOLEAN,
     followers : {1000, 1001, 5000},
     following : {100},
     follower_ratio : {200, 201, 5000},
     is_on_trusted_list : BOOLEAN,
     vouched_by_count : {0, 2, 3},
     trusted_check_note : {FALSE}]

\* generate_reply handed any report without an error
InitScore ==
    /\ trusted_accounts_cache = None
    /\ cache_timestamp = 0
    /\ clock = StartTime
    /\ lastFetch = NoFetch
    /\ lastOutcome = "none"
    /\ call = NoCall
    /\ event = NoEvent
    /\ profile = NoUser
    /\ report \in {[returned |-> TRUE, error |-> "", data |-> d] : d \in Snapshots}
    /\ reply = NoReply
    /\ pc = [t \in Threads |-> "idle"]
    /\ local = [t \in Threads |-> NoLocal]
    /\ published = {<<None, 0>>}

NextScore == GenerateReply

SpecScore == InitScore /\ [][NextScore]_vars

-----------------------------------------------------------------------------
(* get_trusted_accounts called from two threads, one line at a time *)

Goto(t, line) == pc' = [pc EXCEPT ![t] = line]

CacheUntouched ==
    UNCHANGED <<trusted_accounts_cache, cache_timestamp, published>>

Observations ==
    <<clock, lastFetch, lastOutcome, call, event, profile, report, reply>>

\* line 47: a handler calls get_trusted_accounts
Enter(t) ==
    /\ pc[t] = "idle"
    /\ local[t].calls < MaxCalls
    /\ local' = [local EXCEPT ![t].calls = @ + 1]
    /\ Goto(t, "L54")
    /\ CacheUntouched
    /\ UNCHANGED Observations

\* line 54
L54(t) ==
    /\ pc[t] = "L54"
    /\ local' = [local EXCEPT ![t].current_time = clock]
    /\ Goto(t, "L55")
    /\ CacheUntouched
    /\ UNCHANGED Observations

\* line 55
L55(t) ==
    /\ pc[t] = "L55"
    /\ IF CacheIsFresh(trusted_accounts_cache, cache_timestamp, local[t].current_time)
       THEN Goto(t, "L57")
       ELSE Goto(t, "L61")
    /\ CacheUntouched
    /\ UNCHANGED <<local, clock, lastFetch, lastOutcome, call, event, profile,
                   report, reply>>

\* line 57
L57(t) ==
    /\ pc[t] = "L57"
    /\ local' = [local EXCEPT ![t].ret = trusted_accounts_cache.accounts]
    /\ Goto(t, "idle")
    /\ CacheUntouched
    /\ UNCHANGED Observations

\* lines 61-65
L61(t) ==
    /\ pc[t] = "L61"
    /\ \E response \in Responses :
         IF response.kind = "ok"
         THEN /\ local' = [local EXCEPT ![t].accounts = response.accounts]
              /\ Goto(t, "L67")
         ELSE /\ local' = local
              /\ Goto(t, "L74")
    /\ CacheUntouched
    /\ UNCHANGED Observations

\* line 67
L67(t) ==
    /\ pc[t] = "L67"
    /\ trusted_accounts_cache' = Some(local[t].accounts)
    /\ published' = published \cup {<<Some(local[t].accounts), local[t].current_time>>}
    /\ Goto(t, "L68")
    /\ UNCHANGED <<cache_timestamp, local>>
    /\ UNCHANGED Observations

\* line 68
L68(t) ==
    /\ pc[t] = "L68"
    /\ cache_timestamp' = local[t].current_time
    /\ Goto(t, "L70")
    /\ UNCHANGED <<trusted_accounts_cache, published, local>>
    /\ UNCHANGED Observations

\* line 70
L70(t) ==
    /\ pc[t] = "L70"
    /\ local' = [local EXCEPT ![t].ret = local[t].accounts]
    /\ Goto(t, "idle")
    /\ CacheUntouched
    /\ UNCHANGED Observations

\* line 74
L74(t) ==
    /\ pc[t] = "L74"
    /\ local' = [local EXCEPT ![t].ret = IF Truthy(trusted_accounts_cache)
                                         THEN trusted_accounts_cache.accounts
                                         ELSE {}]
    /\ Goto(t, "idle")
    /\ CacheUntouched
    /\ UNCHANGED Observations

NextThreads ==
    \/ Tick
    \/ \E t \in Threads : Enter(t)
    \/ \E t \in Threads : L54(t)
    \/ \E t \in Threads : L55(t)
    \/ \E t \in Threads : L57(t)
    \/ \E t \in Threads : L61(t)
    \/ \E t \in Threads : L67(t)
    \/ \E t \in Threads : L68(t)
    \/ \E t \in Threads : L70(t)
    \/ \E t \in Threads : L74(t)

SpecThreads == Init /\ [][NextThreads]_vars

-----------------------------------------------------------------------------
(* The trusted-list cache, checked under Spec *)

\* What a call finds cached: the set a caller would be handed on a failure
Cached(cache) == IF cache.isNone THEN {} ELSE cache.accounts

\* C1: once a fetch has succeeded at time t, a later call made before t + 3600
\* makes no fetch attempt and returns the set that fetch stored, whatever the
\* set is (the empty set included).
C1_FreshCacheIsServed ==
    (call.made /\ call.fetched_before
        /\ call.at < call.fetched_at + CACHE_DURATION_SECONDS)
    => (call.attempts = 0 /\ call.ret = call.fetched_set)

\* C2: a failed fetch leaves the cached set and the timestamp as they were,
\* hands back the cached set (the empty set when there is none), and the
\* analysis that made the call goes on to a report without an error.
C2_FailedFetchKeepsCache ==
    (call.made /\ call.outcome = "failed")
    => /\ call.cache_after = call.cache_before
       /\ call.ts_after = call.ts_before
       /\ trusted_accounts_cache = call.cache_before
       /\ cache_timestamp = call.ts_before
       /\ call.ret = Cached(call.cache_before)
       /\ report.returned
       /\ report.error = ""
       /\ ~event.raised

\* C2 witness: a refresh of a stale, non-empty list failed and the stale list
\* was returned.
C2_Witness ==
    /\ call.made
    /\ call.outcome = "failed"
    /\ call.cache_before.accounts # {}
    /\ call.ret = call.cache_before.accounts
    /\ call.at - call.ts_before >= CACHE_DURATION_SECONDS

\* C3: a call that finds no cached list younger than 3600 seconds makes one
\* fetch attempt, and so does the call that follows a failed attempt.
C3_OneFetchWhenNotFresh ==
    /\ (call.made /\ (call.cache_before.isNone
                      \/ call.at - call.ts_before >= CACHE_DURATION_SECONDS))
       => call.attempts = 1
    /\ (call.made /\ call.previous = "failed") => call.attempts = 1

\* C3 witness: the refresh of a stale non-empty list failed, and the next call
\* tried the fetch again.
C3_Witness ==
    /\ call.made
    /\ call.previous = "failed"
    /\ call.cache_before.accounts # {}
    /\ call.at - call.ts_before >= CACHE_DURATION_SECONDS
    /\ call.attempts = 1

-----------------------------------------------------------------------------
(* The stream listener, checked under Spec *)

HasRepliedTo(tweet) ==
    \E i \in 1..Len(tweet.referenced_tweets) :
        tweet.referenced_tweets[i].type = "replied_to"

RepliedToId(tweet) ==
    LET i == CHOOSE j \in 1..Len(tweet.referenced_tweets) :
                 tweet.referenced_tweets[j].type = "replied_to"
    IN  tweet.referenced_tweets[i].id

\* C7: the trigger is detected exactly when some referenced tweet, at any
\* position, is of type replied_to and the text holds the trigger phrase in
\* any letter case; the tweet then fetched is that replied_to tweet; an event
\* without the trigger calls no collaborator.
C7_TriggerDetection ==
    event.handled =>
        /\ event.triggered <=> (HasRepliedTo(event.tweet)
                                /\ Contains(Lower(event.tweet.text), TRIGGER_PHRASE))
        /\ event.triggered => event.lookup_id = RepliedToId(event.tweet)
        /\ ~event.triggered => event.calls = {}

PostFailed == event.triggered /\ event.post \in {"none", "no_author"} \cup Exceptions
UserFailed == event.triggered /\ event.post = "ok" /\ event.user \in {"none"} \cup Exceptions

\* C8: when the post fetch or the profile fetch of a triggered event fails or
\* finds nothing, a reply with the failure message is posted (the not-found
\* message when the profile is not found); create_tweet itself is taken to work.
C8_FailureIsReplied ==
    ((PostFailed \/ UserFailed) /\ event.send \notin Exceptions)
    => /\ event.posted.kind = "failed"
       /\ (UserFailed /\ event.user = "none") => event.posted.error = USER_NOT_FOUND

\* C9: no event ends with an exception leaving on_tweet, whatever the
\* collaborators answer, and analyze_user_account, once called, returns a report.
C9_NoFailureEscapes ==
    event.handled =>
        /\ ~event.raised
        /\ "get_user" \in event.calls => report.returned
        /\ (event.user \in Exceptions) => report.error # ""

\* C9 witness: get_user raised an exception that is no TweepyException, the
\* analysis reported an internal error, create_tweet raised one too, and
\* on_tweet still ended normally.
C9_Witness ==
    /\ event.handled
    /\ event.send = "connection_error"
    /\ event.user = "connection_error"
    /\ report.error = INTERNAL_ERROR
    /\ ~event.raised

-----------------------------------------------------------------------------
(* The analysis and the score *)

\* C4: a user whose lower-cased name is in the set get_trusted_accounts
\* returned is marked as on the trusted list and is given exactly 100, Very
\* High, whatever the other attributes are; any other user is marked as not on
\* the list, with a vouch count of 0.
C4_TrustedListMember ==
    (report.returned /\ report.error = "")
    => /\ report.data.is_on_trusted_list <=> (Lower(profile.username) \in call.ret)
       /\ ~report.data.is_on_trusted_list => report.data.vouched_by_count = 0
       /\ (reply.kind = "report" /\ report.data.is_on_trusted_list)
          => (reply.score = 100 /\ reply.trust_level = "Very High")

\* C4 witness: a new, unverified account without followers, its name written
\* in capitals, is on the list and is given 100.
C4_Witness ==
    /\ reply.kind = "report"
    /\ profile.username = <<"A">>
    /\ profile.account_age_days = 0
    /\ profile.followers_count = 0
    /\ ~profile.verified
    /\ call.ret = {<<"a">>}
    /\ report.data.is_on_trusted_list
    /\ reply.score = 100

\* The reference the score is compared with
RefRaw(d) ==
    IF d.is_on_trusted_list THEN 100
    ELSE (IF d.account_age_days > 365 THEN 25 ELSE 0)
         + (IF d.followers > 1000 THEN 15 ELSE 0)
         + (IF d.follower_ratio > 200 THEN 20 ELSE 0)
         + (IF d.is_verified THEN 25 ELSE 0)
         + (IF d.vouched_by_count >= 3 THEN 50 ELSE 0)

RefScore(d) ==
    IF RefRaw(d) > 100 THEN 100 ELSE IF RefRaw(d) < 0 THEN 0 ELSE RefRaw(d)

ExampleData(verified) ==
    [username |-> <<"a">>, account_age_days |-> 400, is_verified |-> verified,
     followers |-> 5000, following |-> 100, follower_ratio |-> 5000,
     is_on_trusted_list |-> FALSE, vouched_by_count |-> 0,
     trusted_check_note |-> FALSE]

\* C5: the score generate_reply computes is the reference score, lies in
\* 0..100, and maps to Very High from 85, High from 65 to 84, Medium from 40 to
\* 64 and Low up to 39; the two worked examples give 60 Medium and 85 Very High.
C5_ScoreAndTier ==
    reply.kind = "report"
    => /\ reply.score = RefScore(report.data)
       /\ reply.score >= 0
       /\ reply.score <= 100
       /\ reply.trust_level = "Very High" <=> reply.score >= 85
       /\ reply.trust_level = "High" <=> (reply.score >= 65 /\ reply.score <= 84)
       /\ reply.trust_level = "Medium" <=> (reply.score >= 40 /\ reply.score <= 64)
       /\ reply.trust_level = "Low" <=> reply.score <= 39
       /\ report.data = ExampleData(FALSE)
          => (reply.score = 60 /\ reply.trust_level = "Medium")
       /\ report.data = ExampleData(TRUE)
          => (reply.score = 85 /\ reply.trust_level = "Very High")

\* C5 witness: the verified example has been scored 85, Very High.
C5_Witness ==
    /\ reply.kind = "report"
    /\ report.data = ExampleData(TRUE)
    /\ reply.score = 85
    /\ reply.trust_level = "Very High"

RatioOverTwo(followers, following) ==
    IF following > 0 THEN followers > 2 * following ELSE followers > 2

\* C6: the ratio bonus of 20 and its reason are given exactly when
\* followers / following > 2, that is followers > 2 * following, for a
\* following count above 0, and exactly when followers > 2 for a following
\* count of 0, where the ratio is the follower count itself.
C6_RatioBonus ==
    reply.kind = "report"
    => /\ (\E i \in 1..Len(reply.reasons) : reply.reasons[i] = RATIO_REASON)
          <=> RatioOverTwo(profile.followers_count, profile.following_count)
       /\ ~report.data.is_on_trusted_list
          => reply.score =
                (IF profile.account_age_days > 365 THEN 25 ELSE 0)
                + (IF profile.followers_count > 1000 THEN 15 ELSE 0)
                + (IF profile.verified THEN 25 ELSE 0)
                + (IF RatioOverTwo(profile.followers_count, profile.following_count)
                   THEN 20 ELSE 0)
       /\ profile.following_count = 0
          => report.data.follower_ratio = 100 * profile.followers_count

-----------------------------------------------------------------------------
(* The cache under concurrent calls, checked under SpecThreads *)

====
